---- MODULE Spec2Model ----
(***************************************************************************)
(* A model of streams/chd_stream.c: a single track of a hunk-compressed    *)
(* disc image exposed as a random-access byte stream.                      *)
(*                                                                         *)
(* The storage engine (libchdr) is the environment: a container is a list  *)
(* of track-metadata records, a header (hunkbytes, unitbytes), the bytes   *)
(* of its hunks and the set of hunks whose decompression fails.            *)
(***************************************************************************)
EXTENDS Integers, Sequences, FiniteSets, TLC

(***************************************************************************)
(* Program constants.                                                      *)
(***************************************************************************)
SECTOR_SIZE == 2352
TRACK_PAD == 4
EOF == -1
SEEK_SET == 0
SEEK_CUR == 1
SEEK_END == 2
CHDSTREAM_TRACK_FIRST_DATA == -1
CHDSTREAM_TRACK_LAST == -2
CHDSTREAM_TRACK_PRIMARY == -3

(***************************************************************************)
(* Bounds of the model.                                                    *)
(***************************************************************************)
\* stream operations performed on one open stream
MaxOps == 3
\* largest buffer length handed to chdstream_gets
MaxGetsLen == 2
\* records of a container, track numbers and frame counts in track resolution
MaxRecs == 2
MaxTrackNo == 2
MaxFrames == 2

Min(a, b) == IF a < b THEN a ELSE b

(***************************************************************************)
(* Metadata records (metadata_t).  subtype, pgsub, pad and postgap are     *)
(* parsed but never read by the code and are left out.                     *)
(***************************************************************************)
ZeroMeta ==
  [track |-> 0, type |-> "", frames |-> 0, pregap |-> 0, pgtype |-> "",
   extra |-> 0, frame_offset |-> 0]

\* no padding between tracks
padding_none(frames) == 0

\* ((frames + TRACK_PAD - 1) & ~(TRACK_PAD - 1)) - frames; TRACK_PAD is a power of two
padding_frames(frames) ==
  (((frames + TRACK_PAD - 1) \div TRACK_PAD) * TRACK_PAD) - frames

\* chdstream_get_meta(chd, idx, md): md is zeroed first; the record the engine
\* holds at idx is parsed by the first of the three formats that supplies it.
\* The legacy CD format ("CHTR") carries no pregap fields, so they stay zero.
chdstream_get_meta(fd, idx) ==
  IF idx < Len(fd.records)
  THEN LET r == fd.records[idx + 1]
       IN [ok |-> TRUE,
           md |-> [track |-> r.track, type |-> r.type, frames |-> r.frames,
                   pregap |-> IF r.tag = "CHTR" THEN 0 ELSE r.pregap,
                   pgtype |-> IF r.tag = "CHTR" THEN "" ELSE r.pgtype,
                   extra |-> padding_frames(r.frames),
                   frame_offset |-> 0]]
  ELSE [ok |-> FALSE, md |-> ZeroMeta]

\* chdstream_find_track_number: the loop from record i with the running frame_offset
RECURSIVE find_track_number_from(_, _, _, _)
find_track_number_from(fd, track, i, frame_offset) ==
  LET g == chdstream_get_meta(fd, i)
  IN IF ~g.ok THEN [ok |-> FALSE, meta |-> g.md]
     ELSE IF track = g.md.track
          THEN [ok |-> TRUE, meta |-> [g.md EXCEPT !.frame_offset = frame_offset]]
          ELSE find_track_number_from(fd, track, i + 1,
                                      frame_offset + g.md.frames + g.md.extra)

chdstream_find_track_number(fd, track) == find_track_number_from(fd, track, 0, 0)

\* One iteration of the loop of chdstream_find_special_track, entered with i,
\* largest_track and largest_size.  done: the function returned (always with
\* true: it has no other return than the two in the failed-lookup branch, the
\* one in the FIRST_DATA case and whatever the PRIMARY re-lookup returns).
\* A failed lookup leaves iter zeroed by chdstream_get_meta, and when neither
\* return of the failed-lookup branch is taken control falls into the switch.
special_track_iter(fd, track, i, largest_track, largest_size) ==
  LET f == chdstream_find_track_number(fd, i)
      iter == f.meta
      goon == [done |-> FALSE, ok |-> FALSE, meta |-> iter, exhausted |-> ~f.ok,
               largest_track |-> largest_track, largest_size |-> largest_size]
  IN IF ~f.ok /\ track = CHDSTREAM_TRACK_LAST /\ i > 1
     THEN [goon EXCEPT !.done = TRUE, !.ok = TRUE]
     ELSE IF ~f.ok /\ track = CHDSTREAM_TRACK_PRIMARY /\ largest_track # 0
     THEN LET r == chdstream_find_track_number(fd, largest_track)
          IN [goon EXCEPT !.done = TRUE, !.ok = r.ok, !.meta = r.meta]
     ELSE IF track = CHDSTREAM_TRACK_FIRST_DATA
     THEN IF iter.type # "AUDIO"
          THEN [goon EXCEPT !.done = TRUE, !.ok = TRUE]
          ELSE goon
     ELSE IF track = CHDSTREAM_TRACK_PRIMARY
     THEN IF iter.type # "AUDIO" /\ iter.frames > largest_size
          THEN [goon EXCEPT !.largest_size = iter.frames, !.largest_track = iter.track]
          ELSE goon
     ELSE goon

\* Every lookup of a track number above MaxTrackNo fails alike, so iterations
\* with i > MaxTrackNo are indistinguishable: the loop counter is kept at
\* MaxTrackNo + 1 from there on (the int32_t counter itself runs on, up to
\* INT32_MAX iterations before ++i overflows).
next_i(i) == IF i > MaxTrackNo THEN i ELSE i + 1

\* chdstream_find_special_track run to its return.  hang: the loop reached
\* i > MaxTrackNo in an iteration that changes nothing, so it never returns.
RECURSIVE find_special_track_from(_, _, _, _, _)
find_special_track_from(fd, track, i, largest_track, largest_size) ==
  LET s == special_track_iter(fd, track, i, largest_track, largest_size)
  IN IF s.done THEN [hang |-> FALSE, ok |-> s.ok, meta |-> s.meta]
     ELSE IF i > MaxTrackNo /\ s.largest_track = largest_track
                            /\ s.largest_size = largest_size
          THEN [hang |-> TRUE, ok |-> FALSE, meta |-> s.meta]
          ELSE find_special_track_from(fd, track, next_i(i),
                                       s.largest_track, s.largest_size)

chdstream_find_special_track(fd, track) ==
  find_special_track_from(fd, track, 1, 0, 0)

chdstream_find_track(fd, track) ==
  IF track < 0
  THEN chdstream_find_special_track(fd, track)
  ELSE LET r == chdstream_find_track_number(fd, track)
       IN [hang |-> FALSE, ok |-> r.ok, meta |-> r.meta]

(***************************************************************************)
(* struct chdstream.  hunkmem is the content of the hunk buffer: the       *)
(* engine's hunk `hunk` with `swaps` passes of SWAP16 applied to it        *)
(* (hunk = -1: the buffer as malloc left it, never read; null: the pointer *)
(* is NULL).                                                               *)
(***************************************************************************)
NoStream ==
  [chd |-> FALSE, swab |-> FALSE, frame_size |-> 0, frame_offset |-> 0,
   frames_per_hunk |-> 0, track_frame |-> 0, track_start |-> 0,
   track_end |-> 0, offset |-> 0, hunknum |-> 0,
   hunkmem |-> [null |-> TRUE, hunk |-> -1, swaps |-> 0]]

\* frame geometry by track type
frame_size_of(type, hd) ==
  IF type \in {"MODE1_RAW", "MODE2_RAW", "AUDIO"} THEN SECTOR_SIZE ELSE hd.unitbytes

\* the pregap counted whatever its type
pregap_always(meta) == meta.pregap

\* only include pregap data if it was in the track file
pregap_of(meta) == IF meta.type = meta.pgtype THEN meta.pregap ELSE 0

\* the stream chdstream_open returns once track and allocations succeeded
open_setup(meta, hd) ==
  LET fs == frame_size_of(meta.type, hd)
      track_start == pregap_of(meta) * fs
  IN [chd |-> TRUE,
      swab |-> (meta.type = "AUDIO"),
      frame_size |-> fs,
      frame_offset |-> 0,
      frames_per_hunk |-> hd.hunkbytes \div hd.unitbytes,
      track_frame |-> meta.frame_offset,
      track_start |-> track_start,
      track_end |-> track_start + meta.frames * fs,
      offset |-> 0,
      hunknum |-> -1,
      hunkmem |-> [null |-> FALSE, hunk |-> -1, swaps |-> 0]]

(***************************************************************************)
(* The storage engine's data: byte p of the decompressed hunk h.  Never 0, *)
(* so a zero byte delivered by a read is a pregap byte, and neighbouring   *)
(* bytes differ, so a swapped pair shows.                                  *)
(***************************************************************************)
EngineByte(h, p) == ((h * 101 + p * 7) % 255) + 1

\* SWAP16 over the hunkbytes / 2 words of the buffer: where byte p comes from
Swap16Index(p, hunkbytes) ==
  IF p >= 2 * (hunkbytes \div 2) THEN p
  ELSE IF p % 2 = 0 THEN p + 1 ELSE p - 1

\* what a copy finds past the end of the hunk buffer (malloc(hd->hunkbytes)):
\* not a byte of the buffer; the read that made the copy settles it
Beyond == 256

\* byte p of the hunk buffer
HunkMemByte(hunkmem, p, hunkbytes) ==
  IF p >= hunkbytes THEN Beyond
  ELSE IF hunkmem.swaps % 2 = 1
  THEN EngineByte(hunkmem.hunk, Swap16Index(p, hunkbytes))
  ELSE EngineByte(hunkmem.hunk, p)

\* the copy starting one byte too far into the buffer
copy_out_off_by_one(hunkmem, base, amount, hunkbytes) ==
  [k \in 1..amount |-> HunkMemByte(hunkmem, base + k, hunkbytes)]

\* memcpy of amount bytes from hunkmem + base
CopyOut(hunkmem, base, amount, hunkbytes) ==
  [k \in 1..amount |-> HunkMemByte(hunkmem, base + k - 1, hunkbytes)]

\* chdstream_load_hunk without the test for the hunk already loaded
load_hunk_uncached(s, fd, hunknum, cl) ==
  IF hunknum \in fd.bad
  THEN [ok |-> FALSE, stream |-> s, calls |-> Append(cl, hunknum)]
  ELSE [ok |-> TRUE,
        stream |-> [s EXCEPT
                      !.hunkmem = [null |-> FALSE, hunk |-> hunknum,
                                   swaps |-> IF s.swab THEN 1 ELSE 0],
                      !.hunknum = hunknum],
        calls |-> Append(cl, hunknum)]

\* chdstream_load_hunk running the SWAP16 pass on a cache hit as well
load_hunk_swap_on_hit(s, fd, hunknum, cl) ==
  IF hunknum = s.hunknum
  THEN [ok |-> TRUE,
        stream |-> [s EXCEPT !.hunkmem.swaps = IF s.swab THEN @ + 1 ELSE @],
        calls |-> cl]
  ELSE IF hunknum \in fd.bad
  THEN [ok |-> FALSE, stream |-> s, calls |-> Append(cl, hunknum)]
  ELSE [ok |-> TRUE,
        stream |-> [s EXCEPT
                      !.hunkmem = [null |-> FALSE, hunk |-> hunknum,
                                   swaps |-> IF s.swab THEN 1 ELSE 0],
                      !.hunknum = hunknum],
        calls |-> Append(cl, hunknum)]

\* chdstream_load_hunk; calls is the list of hunks asked of chd_read so far
chdstream_load_hunk(s, fd, hunknum, cl) ==
  IF hunknum = s.hunknum
  THEN [ok |-> TRUE, stream |-> s, calls |-> cl]
  ELSE IF hunknum \in fd.bad
  THEN [ok |-> FALSE, stream |-> s, calls |-> Append(cl, hunknum)]
  ELSE [ok |-> TRUE,
        stream |-> [s EXCEPT
                      !.hunkmem = [null |-> FALSE, hunk |-> hunknum,
                                   swaps |-> IF s.swab THEN 1 ELSE 0],
                      !.hunknum = hunknum],
        calls |-> Append(cl, hunknum)]

\* the pregap test one frame short
in_pregap_short(s) == s.offset + s.frame_size < s.track_start

\* "In pregap": the chunk at the cursor is zero-filled instead of read
in_pregap(s) == s.offset < s.track_start

\* the while loop of chdstream_read; ok = FALSE: a hunk failed to load and
\* the call ended in abort()
RECURSIVE read_loop(_, _, _, _, _)
read_loop(s, fd, end, data, cl) ==
  IF ~(s.offset < end)
  THEN [ok |-> TRUE, stream |-> s, out |-> data, calls |-> cl]
  ELSE
    LET frame_offset == s.offset % s.frame_size
        amount == Min(s.frame_size - frame_offset, end - s.offset)
    IN IF in_pregap(s)
       THEN read_loop([s EXCEPT !.offset = @ + amount], fd, end,
                      data \o [k \in 1..amount |-> 0], cl)
       ELSE
         LET chd_frame == s.track_frame +
                 ((s.offset - s.track_start) \div s.frame_size)
             hunk == chd_frame \div s.frames_per_hunk
             hunk_offset == (chd_frame % s.frames_per_hunk) * fd.unitbytes
             l == chdstream_load_hunk(s, fd, hunk, cl)
             base == frame_offset + hunk_offset + s.frame_offset
         IN IF ~l.ok
            THEN [ok |-> FALSE, stream |-> l.stream, out |-> data, calls |-> l.calls]
            ELSE read_loop([l.stream EXCEPT !.offset = @ + amount], fd, end,
                           data \o CopyOut(l.stream.hunkmem, base, amount,
                                           fd.hunkbytes),
                           l.calls)

\* no clamp of the requested count
read_clamp_none(s, bytes) == bytes

\* the clamp of the requested count to what is left of the track
read_clamp(s, bytes) ==
  IF s.track_end - s.offset < bytes
  THEN s.track_end - s.offset
  ELSE bytes

\* chdstream_read(stream, data, bytes); out is what was written to data
chdstream_read(s, fd, bytes) ==
  LET n == read_clamp(s, bytes)
      r == read_loop(s, fd, s.offset + n, << >>, << >>)
  IN [ok |-> r.ok, ret |-> n, stream |-> r.stream, out |-> r.out,
      calls |-> r.calls]

\* A memcpy that runs past the end of the hunk buffer is undefined: it
\* delivers whatever lies behind the buffer, or the process faults.
JunkBytes == {0, 255}

Overran(data) == \E k \in 1..Len(data) : data[k] = Beyond

ReadOutcomes(data) ==
  IF Overran(data)
  THEN { [fault |-> FALSE,
          out |-> [k \in 1..Len(data) |->
                     IF data[k] = Beyond THEN j ELSE data[k]]] : j \in JunkBytes }
       \cup { [fault |-> TRUE, out |-> << >>] }
  ELSE { [fault |-> FALSE, out |-> data] }

\* the count chdstream_getc passes to chdstream_read: sizeof(c) != sizeof(c)
getc_count == IF 1 # 1 THEN 1 ELSE 0

\* chdstream_getc: c starts as 0 and is returned unless the read returned nonzero
chdstream_getc(s, fd) ==
  LET r == chdstream_read(s, fd, getc_count)
      c == IF Len(r.out) > 0 THEN r.out[1] ELSE 0
  IN [ok |-> r.ok, ret |-> IF r.ret # 0 THEN EOF ELSE c,
      stream |-> r.stream, out |-> r.out, calls |-> r.calls]

\* chdstream_gets: the loop from buffer index offset; buffer holds -1 where
\* the caller's bytes have not been overwritten
RECURSIVE gets_loop(_, _, _, _, _, _)
gets_loop(s, fd, buffer, len, offset, cl) ==
  IF ~(offset < len)
  THEN [ok |-> TRUE, stream |-> s, out |-> buffer, calls |-> cl]
  ELSE LET g == chdstream_getc(s, fd)
       IN IF ~g.ok
          THEN [ok |-> FALSE, stream |-> g.stream, out |-> buffer,
                calls |-> cl \o g.calls]
          ELSE IF g.ret = EOF
          THEN [ok |-> TRUE, stream |-> g.stream,
                out |-> [buffer EXCEPT ![offset + 1] = 0],
                calls |-> cl \o g.calls]
          ELSE gets_loop(g.stream, fd, [buffer EXCEPT ![offset + 1] = g.ret],
                         len, offset + 1, cl \o g.calls)

chdstream_gets(s, fd, len) ==
  gets_loop(s, fd, [k \in 1..len |-> -1], len, 0, << >>)

chdstream_tell(s) == s.offset

chdstream_rewind(s) == [s EXCEPT !.offset = 0]

\* chdstream_seek without the clamp to track_end
seek_without_clamp(s, offset, whence) ==
  IF whence \notin {SEEK_SET, SEEK_CUR, SEEK_END}
  THEN [ret |-> -1, stream |-> s]
  ELSE
    LET new_offset == IF whence = SEEK_SET THEN offset
                      ELSE IF whence = SEEK_CUR THEN s.offset + offset
                      ELSE s.track_end + offset
    IN IF new_offset < 0
       THEN [ret |-> -1, stream |-> s]
       ELSE [ret |-> 0, stream |-> [s EXCEPT !.offset = new_offset]]

\* chdstream_seek committing the new offset before the test for a negative one
seek_commit_first(s, offset, whence) ==
  IF whence \notin {SEEK_SET, SEEK_CUR, SEEK_END}
  THEN [ret |-> -1, stream |-> s]
  ELSE
    LET new_offset == IF whence = SEEK_SET THEN offset
                      ELSE IF whence = SEEK_CUR THEN s.offset + offset
                      ELSE s.track_end + offset
    IN IF new_offset < 0
       THEN [ret |-> -1, stream |-> [s EXCEPT !.offset = new_offset]]
       ELSE [ret |-> 0,
             stream |-> [s EXCEPT !.offset =
                           IF new_offset > s.track_end
                           THEN s.track_end ELSE new_offset]]

\* chdstream_seek treating a position past track_end as an error
seek_overshoot_fails(s, offset, whence) ==
  IF whence \notin {SEEK_SET, SEEK_CUR, SEEK_END}
  THEN [ret |-> -1, stream |-> s]
  ELSE
    LET new_offset == IF whence = SEEK_SET THEN offset
                      ELSE IF whence = SEEK_CUR THEN s.offset + offset
                      ELSE s.track_end + offset
    IN IF new_offset < 0 \/ new_offset > s.track_end
       THEN [ret |-> -1, stream |-> s]
       ELSE [ret |-> 0, stream |-> [s EXCEPT !.offset = new_offset]]

\* chdstream_seek: ret and the stream after the call
chdstream_seek(s, offset, whence) ==
  IF whence \notin {SEEK_SET, SEEK_CUR, SEEK_END}
  THEN [ret |-> -1, stream |-> s]
  ELSE
    LET new_offset == IF whence = SEEK_SET THEN offset
                      ELSE IF whence = SEEK_CUR THEN s.offset + offset
                      ELSE s.track_end + offset
    IN IF new_offset < 0
       THEN [ret |-> -1, stream |-> s]
       ELSE [ret |-> 0,
             stream |-> [s EXCEPT !.offset =
                           IF new_offset > s.track_end
                           THEN s.track_end ELSE new_offset]]

(***************************************************************************)
(* State.                                                                  *)
(***************************************************************************)
VARIABLES
  chd,       \* the container as the engine presents it:
             \* [records, hunkbytes, unitbytes, bad (hunks chd_read fails on)]
  selector,  \* the track argument of chdstream_open
  pc,        \* where the caller is: inside chdstream_open ("chd_open",
             \* "find_track", "alloc_stream", "alloc_hunkmem", "error"), after
             \* it ("opened", "null"), "closed", or "aborted" (the process
             \* was terminated: abort() ran, or a copy past the buffer faulted)
  locals,    \* the locals of chdstream_open and of the track search
  stream,    \* the struct chdstream
  heap,      \* live resources: engine sessions, stream structs, hunk buffers
  op,        \* the last stream operation: name, arguments, stream before it
  ret,       \* its return value
  out,       \* the bytes it wrote to the caller's buffer
  calls,     \* the hunks it asked of chd_read, in order
  nops       \* stream operations performed so far

vars == <<chd, selector, pc, locals, stream, heap, op, ret, out, calls, nops>>

NoLocals ==
  [chd |-> FALSE, stream |-> FALSE, i |-> 1, largest_track |-> 0,
   largest_size |-> 0, exhausted |-> FALSE, spin |-> FALSE,
   ok |-> FALSE, meta |-> ZeroMeta]

NoOp == [name |-> "none", a |-> 0, b |-> 0, pre |-> NoStream]

(***************************************************************************)
(* Containers.                                                             *)
(***************************************************************************)
Rec(tag, track, type, frames, pregap, pgtype) ==
  [tag |-> tag, track |-> track, type |-> type, frames |-> frames,
   pregap |-> pregap, pgtype |-> pgtype]

\* a CD image as libchdr reports it (2448-byte units), and a small geometry
\* for cooked tracks
CdHeader == [hunkbytes |-> 4896, unitbytes |-> 2448]
SmallHeader == [hunkbytes |-> 12, unitbytes |-> 4]
Headers == {CdHeader, SmallHeader}

Selectors ==
  (1..(MaxTrackNo + 1)) \cup
  {CHDSTREAM_TRACK_FIRST_DATA, CHDSTREAM_TRACK_LAST, CHDSTREAM_TRACK_PRIMARY}

Container(recs, hd, bad) ==
  [records |-> recs, hunkbytes |-> hd.hunkbytes, unitbytes |-> hd.unitbytes,
   bad |-> bad]

\* the images the stream operations are exercised on: cooked tracks in the
\* small geometry (one without pregap, one behind another track and with an
\* addressable pregap), and a CD image with an audio track with an
\* addressable pregap
StreamImages ==
  { [records |-> << Rec("CHT2", 1, "MODE1", 3, 0, "MODE1") >>,
     hd |-> SmallHeader],
    [records |-> << Rec("CHT2", 1, "MODE1", 1, 0, "MODE1"),
                    Rec("CHT2", 2, "MODE1", 3, 2, "MODE1") >>,
     hd |-> SmallHeader],
    [records |-> << Rec("CHT2", 1, "AUDIO", 2, 1, "AUDIO") >>,
     hd |-> CdHeader] }

\* the selectors streams are opened with
StreamSelectors == {1, 2, CHDSTREAM_TRACK_LAST}

BadSets == { {}, {2} }

\* every copy out of the hunk buffer stays inside it when a frame is no
\* longer than a unit
GeometryFits(s, hd) == s.frame_size <= hd.unitbytes

(***************************************************************************)
(* Stream operations on an open stream.                                    *)
(***************************************************************************)
Init ==
  \E img \in StreamImages, t \in StreamSelectors, bad \in BadSets :
    LET hd == img.hd
        fd == Container(img.records, hd, bad)
        r == chdstream_find_track(fd, t)
    IN /\ ~r.hang /\ r.ok
       /\ GeometryFits(open_setup(r.meta, hd), hd)
       /\ chd = fd
       /\ selector = t
       /\ pc = "opened"
       /\ locals = [NoLocals EXCEPT !.chd = TRUE, !.stream = TRUE,
                                    !.ok = TRUE, !.meta = r.meta]
       /\ stream = open_setup(r.meta, hd)
       /\ heap = [sessions |-> 1, streams |-> 1, hunkmems |-> 1]
       /\ op = NoOp /\ ret = 0 /\ out = << >> /\ calls = << >> /\ nops = 0

ReadSizes(s) == {0, 1, 2, s.frame_size + 2}

\* offsets with SEEK_SET, SEEK_CUR and SEEK_END, and a whence that is none
\* of them
SeekArgs(s) ==
  ({-(s.track_end + 1), -1, 0, 1, s.frame_size - 1, s.track_start,
    s.track_end + 1} \X {SEEK_SET, SEEK_CUR, SEEK_END})
  \cup {<<0, 3>>, <<-1, 3>>}

CanCall == pc = "opened" /\ nops < MaxOps

\* what every operation leaves alone
Frame == UNCHANGED <<chd, selector, locals, heap>>

Read ==
  /\ CanCall
  /\ \E bytes \in ReadSizes(stream) :
       LET r == chdstream_read(stream, chd, bytes)
       IN /\ op' = [name |-> "read", a |-> bytes, b |-> 0, pre |-> stream]
          /\ stream' = r.stream
          /\ calls' = r.calls
          /\ \E oc \in ReadOutcomes(r.out) :
               /\ out' = oc.out
               /\ ret' = IF r.ok /\ ~oc.fault THEN r.ret ELSE 0
               /\ pc' = IF r.ok /\ ~oc.fault THEN pc ELSE "aborted"
  /\ nops' = nops + 1
  /\ Frame

Getc ==
  /\ CanCall
  /\ LET r == chdstream_getc(stream, chd)
     IN /\ op' = [name |-> "getc", a |-> 0, b |-> 0, pre |-> stream]
        /\ stream' = r.stream
        /\ out' = r.out
        /\ calls' = r.calls
        /\ ret' = IF r.ok THEN r.ret ELSE 0
        /\ pc' = IF r.ok THEN pc ELSE "aborted"
  /\ nops' = nops + 1
  /\ Frame

Gets ==
  /\ CanCall
  /\ \E len \in 0..MaxGetsLen :
       LET r == chdstream_gets(stream, chd, len)
       IN /\ op' = [name |-> "gets", a |-> len, b |-> 0, pre |-> stream]
          /\ stream' = r.stream
          /\ out' = r.out
          /\ calls' = r.calls
          /\ ret' = 0
          /\ pc' = IF r.ok THEN pc ELSE "aborted"
  /\ nops' = nops + 1
  /\ Frame

Tell ==
  /\ CanCall
  /\ op' = [name |-> "tell", a |-> 0, b |-> 0, pre |-> stream]
  /\ ret' = chdstream_tell(stream)
  /\ out' = << >> /\ calls' = << >>
  /\ nops' = nops + 1
  /\ UNCHANGED <<stream, pc>>
  /\ Frame

Rewind ==
  /\ CanCall
  /\ op' = [name |-> "rewind", a |-> 0, b |-> 0, pre |-> stream]
  /\ stream' = chdstream_rewind(stream)
  /\ ret' = 0 /\ out' = << >> /\ calls' = << >>
  /\ nops' = nops + 1
  /\ UNCHANGED pc
  /\ Frame

Seek ==
  /\ CanCall
  /\ \E arg \in SeekArgs(stream) :
       LET r == chdstream_seek(stream, arg[1], arg[2])
       IN /\ op' = [name |-> "seek", a |-> arg[1], b |-> arg[2], pre |-> stream]
          /\ stream' = r.stream
          /\ ret' = r.ret
  /\ out' = << >> /\ calls' = << >>
  /\ nops' = nops + 1
  /\ UNCHANGED pc
  /\ Frame

Next == Read \/ Getc \/ Gets \/ Tell \/ Rewind \/ Seek

Spec == Init /\ [][Next]_vars

(***************************************************************************)
(* Stream operations on raw tracks of a container whose unit is smaller    *)
(* than a sector: open takes frame_size = SECTOR_SIZE from the track type  *)
(* and the unit size from the header, whatever the two are.                *)
(***************************************************************************)
RawImages ==
  { [records |-> << Rec("CHT2", 1, "MODE1_RAW", 1, 0, "MODE1") >>,
     hd |-> SmallHeader],
    [records |-> << Rec("CHT2", 1, "AUDIO", 1, 0, "AUDIO") >>,
     hd |-> SmallHeader] }

InitRaw ==
  \E img \in RawImages :
    LET hd == img.hd
        fd == Container(img.records, hd, {})
        r == chdstream_find_track(fd, 1)
    IN /\ ~r.hang /\ r.ok
       /\ chd = fd
       /\ selector = 1
       /\ pc = "opened"
       /\ locals = [NoLocals EXCEPT !.chd = TRUE, !.stream = TRUE,
                                    !.ok = TRUE, !.meta = r.meta]
       /\ stream = open_setup(r.meta, hd)
       /\ heap = [sessions |-> 1, streams |-> 1, hunkmems |-> 1]
       /\ op = NoOp /\ ret = 0 /\ out = << >> /\ calls = << >> /\ nops = 0

SpecRaw == InitRaw /\ [][Next]_vars

(***************************************************************************)
(* chdstream_open and chdstream_close, step by step, on every container of *)
(* at most MaxRecs records.                                                *)
(***************************************************************************)
\* type, format tag and pregap fields a record comes with: an audio track
\* whose pregap has the track's type, a raw data track whose pregap has
\* another type, and a cooked track in the legacy format (no pregap fields)
RecordKinds ==
  { [tag |-> "CHT2", type |-> "AUDIO", pregap |-> 2, pgtype |-> "AUDIO"],
    [tag |-> "CHT2", type |-> "MODE1_RAW", pregap |-> 2, pgtype |-> "MODE1"],
    [tag |-> "CHTR", type |-> "MODE1", pregap |-> 0, pgtype |-> ""] }

Records ==
  { Rec(k.tag, t, k.type, f, k.pregap, k.pgtype) :
      k \in RecordKinds, t \in 1..MaxTrackNo, f \in 0..MaxFrames }

Containers == UNION { [1..n -> Records] : n \in 0..MaxRecs }

InitOpen ==
  /\ chd \in { Container(recs, CdHeader, {}) : recs \in Containers }
  /\ selector \in Selectors
  /\ pc = "chd_open"
  /\ locals = NoLocals
  /\ stream = NoStream
  /\ heap = [sessions |-> 0, streams |-> 0, hunkmems |-> 0]
  /\ op = NoOp /\ ret = 0 /\ out = << >> /\ calls = << >> /\ nops = 0

OpenFrame == UNCHANGED <<chd, selector, op, ret, out, calls, nops>>

\* chd_open(path, CHD_OPEN_READ, NULL, &chd) fails or opens a session
ChdOpen ==
  /\ pc = "chd_open"
  /\ \E err \in BOOLEAN :
       IF err
       THEN pc' = "error" /\ UNCHANGED <<locals, heap>>
       ELSE /\ pc' = "find_track"
            /\ locals' = [locals EXCEPT !.chd = TRUE]
            /\ heap' = [heap EXCEPT !.sessions = @ + 1]
  /\ UNCHANGED stream
  /\ OpenFrame

\* chdstream_find_track with track >= 0
FindTrackNumber ==
  /\ pc = "find_track" /\ ~(selector < 0)
  /\ LET r == chdstream_find_track_number(chd, selector)
     IN /\ locals' = [locals EXCEPT !.ok = r.ok, !.meta = r.meta,
                                    !.exhausted = ~r.ok]
        /\ pc' = IF r.ok THEN "alloc_stream" ELSE "error"
  /\ UNCHANGED <<stream, heap>>
  /\ OpenFrame

\* chdstream_find_track with track < 0: one iteration of the loop of
\* chdstream_find_special_track
FindSpecialStep ==
  /\ pc = "find_track" /\ selector < 0
  /\ LET it == special_track_iter(chd, selector, locals.i, locals.largest_track,
                                  locals.largest_size)
     IN IF it.done
        THEN /\ locals' = [locals EXCEPT !.ok = it.ok, !.meta = it.meta,
                                         !.exhausted = @ \/ it.exhausted]
             /\ pc' = IF it.ok THEN "alloc_stream" ELSE "error"
        ELSE /\ locals' = [locals EXCEPT
                             !.i = next_i(@),
                             !.largest_track = it.largest_track,
                             !.largest_size = it.largest_size,
                             !.exhausted = @ \/ it.exhausted,
                             !.spin = IF locals.i > MaxTrackNo THEN ~@ ELSE @]
             /\ pc' = pc
  /\ UNCHANGED <<stream, heap>>
  /\ OpenFrame

\* stream = calloc(1, sizeof(*stream))
AllocStream ==
  /\ pc = "alloc_stream"
  /\ \E fails \in BOOLEAN :
       IF fails
       THEN pc' = "error" /\ UNCHANGED <<locals, heap>>
       ELSE /\ pc' = "alloc_hunkmem"
            /\ locals' = [locals EXCEPT !.stream = TRUE]
            /\ heap' = [heap EXCEPT !.streams = @ + 1]
  /\ stream' = NoStream
  /\ OpenFrame

\* stream->hunkmem = malloc(hd->hunkbytes) and, when it succeeds, the rest
\* of chdstream_open up to return stream
AllocHunkmem ==
  /\ pc = "alloc_hunkmem"
  /\ \E fails \in BOOLEAN :
       IF fails
       THEN pc' = "error" /\ UNCHANGED <<stream, heap>>
       ELSE /\ pc' = "opened"
            /\ stream' = open_setup(locals.meta, chd)
            /\ heap' = [heap EXCEPT !.hunkmems = @ + 1]
  /\ UNCHANGED locals
  /\ OpenFrame

\* chdstream_close closing the session without the test of stream->chd
close_unguarded(isnull, s, h) ==
  IF isnull THEN h
  ELSE [sessions |-> h.sessions - 1,
        streams |-> h.streams - 1,
        hunkmems |-> h.hunkmems - (IF s.hunkmem.null THEN 0 ELSE 1)]

\* chdstream_close(stream): what it releases
chdstream_close(isnull, s, h) ==
  IF isnull THEN h
  ELSE [sessions |-> h.sessions - (IF s.chd THEN 1 ELSE 0),
        streams |-> h.streams - 1,
        hunkmems |-> h.hunkmems - (IF s.hunkmem.null THEN 0 ELSE 1)]

\* the error label of chdstream_open
ErrorExit ==
  /\ pc = "error"
  /\ LET h == chdstream_close(~locals.stream, stream, heap)
     IN heap' = [h EXCEPT !.sessions = @ - (IF locals.chd THEN 1 ELSE 0)]
  /\ pc' = "null"
  /\ stream' = NoStream
  /\ UNCHANGED locals
  /\ OpenFrame

\* the caller closes what chdstream_open returned
Close ==
  /\ pc \in {"opened", "null"}
  /\ heap' = chdstream_close(pc = "null", stream, heap)
  /\ pc' = "closed"
  /\ stream' = NoStream
  /\ UNCHANGED locals
  /\ OpenFrame

NextOpen ==
  ChdOpen \/ FindTrackNumber \/ FindSpecialStep \/ AllocStream
    \/ AllocHunkmem \/ ErrorExit \/ Close

SpecOpen == InitOpen /\ [][NextOpen]_vars

\* chdstream_open with an explicit track number (track >= 0 in
\* chdstream_find_track), and chdstream_close
InitNumber == InitOpen /\ selector > 0

NextNumber ==
  ChdOpen \/ FindTrackNumber \/ AllocStream \/ AllocHunkmem \/ ErrorExit \/ Close

SpecNumber == InitNumber /\ [][NextNumber]_vars

\* chdstream_open runs on: the track search takes its next step whenever it
\* has one
SpecOpenFair ==
  /\ InitOpen /\ [][NextOpen]_vars
  /\ WF_vars(FindTrackNumber)
  /\ WF_vars(FindSpecialStep)

(***************************************************************************)
(* chdstream_open and chdstream_close on single-track containers of every  *)
(* track type, pregap type and header geometry.                            *)
(***************************************************************************)
GeomTypes == {"MODE1_RAW", "MODE2_RAW", "AUDIO", "MODE1"}

GeomRecords ==
  { Rec("CHT2", t, ty, f, 2, pg) :
      t \in 1..MaxTrackNo, ty \in GeomTypes, f \in 0..MaxFrames, pg \in GeomTypes }

InitGeom ==
  /\ chd \in { Container(<< r >>, hd, {}) : r \in GeomRecords, hd \in Headers }
  /\ selector \in Selectors
  /\ pc = "chd_open"
  /\ locals = NoLocals
  /\ stream = NoStream
  /\ heap = [sessions |-> 0, streams |-> 0, hunkmems |-> 0]
  /\ op = NoOp /\ ret = 0 /\ out = << >> /\ calls = << >> /\ nops = 0

SpecGeom == InitGeom /\ [][NextOpen]_vars

(***************************************************************************)
(* Properties of the stream operations (checked under Spec).               *)
(***************************************************************************)
\* the position a seek asks for
Candidate(s, offset, whence) ==
  IF whence = SEEK_SET THEN offset
  ELSE IF whence = SEEK_CUR THEN s.offset + offset
  ELSE s.track_end + offset

KnownWhence(whence) == whence \in {SEEK_SET, SEEK_CUR, SEEK_END}

\* the physical hunk holding the byte at logical offset o >= track_start
HunkOfOffset(s, o) ==
  (s.track_frame + ((o - s.track_start) \div s.frame_size)) \div s.frames_per_hunk

\* the data part [from, to) of the range a read covered, and its hunks
DataFrom(s, n) == IF s.offset < s.track_start THEN s.track_start ELSE s.offset
DataTo(s, n) == s.offset + n
DataHunks(s, n) ==
  IF DataFrom(s, n) < DataTo(s, n)
  THEN HunkOfOffset(s, DataFrom(s, n)) .. HunkOfOffset(s, DataTo(s, n) - 1)
  ELSE {}

IsRead == op.name = "read"
IsSeek == op.name = "seek"

\* C1: after open and after any sequence of read, getc, gets, seek and rewind
\* calls, 0 <= current_offset <= track_end_byte
C1_CursorWithinTrack ==
  0 <= stream.offset /\ stream.offset <= stream.track_end

\* C1 witness: a seek far past the end of a non-empty track succeeded after
\* another operation, and the cursor sits at track_end
C1_Witness ==
  /\ IsSeek /\ ret = 0 /\ nops >= 2
  /\ Candidate(op.pre, op.a, op.b) > stream.track_end
  /\ stream.track_end > 0
  /\ stream.offset = stream.track_end

\* C2: when all hunk loads succeed, read returns exactly
\* min(requested, track_end - current_offset), delivers that many bytes, and
\* tell() after the call is tell() before it plus the returned count
C2_ReadCount ==
  (IsRead /\ pc = "opened") =>
     /\ ret = Min(op.a, op.pre.track_end - op.pre.offset)
     /\ Len(out) = ret
     /\ chdstream_tell(stream) = chdstream_tell(op.pre) + ret

\* C2 witness: a read asking for more than is left returned the nonzero rest
C2_Witness ==
  /\ IsRead /\ pc = "opened"
  /\ op.a > op.pre.track_end - op.pre.offset
  /\ ret > 0
  /\ stream.offset = stream.track_end

\* C3: with an addressable pregap, every byte read delivers for an offset
\* below track_start is zero, the hunks asked of the engine are hunks of the
\* data part of the range only (none when the read ends inside the pregap),
\* and a read from offset 0 reaching past track_start starts with exactly
\* track_start zero bytes
C3_PregapZero ==
  (IsRead /\ op.pre.track_start > 0) =>
     /\ \A k \in 1..Len(out) :
          (op.pre.offset + k - 1 < op.pre.track_start) => out[k] = 0
     /\ \A j \in 1..Len(calls) :
          calls[j] \in DataHunks(op.pre, IF pc = "opened" THEN Len(out)
                                                          ELSE Len(out) + 1)
     /\ (op.pre.offset + op.a <= op.pre.track_start) => calls = << >>
     /\ (op.pre.offset = 0 /\ Len(out) > op.pre.track_start) =>
            out[op.pre.track_start + 1] # 0

\* C3 witness: a read that started mid-frame inside the pregap and crossed
\* track_start
C3_Witness ==
  /\ IsRead /\ pc = "opened"
  /\ op.pre.track_start > 0
  /\ op.pre.offset % op.pre.frame_size # 0
  /\ op.pre.offset < op.pre.track_start
  /\ op.pre.offset + Len(out) > op.pre.track_start
  /\ out[1] = 0 /\ out[Len(out)] # 0

\* C4: a seek with an unrecognized origin or a negative candidate reports
\* failure and leaves every stream field unchanged
C4_SeekFailure ==
  (IsSeek /\ (~KnownWhence(op.b) \/ Candidate(op.pre, op.a, op.b) < 0)) =>
     ret = -1 /\ stream = op.pre

\* C4 witness: seek(-1, SEEK_CUR) at offset 0 of a non-empty track failed
\* and tell() is still 0
C4_Witness ==
  /\ IsSeek /\ ret = -1
  /\ op.a = -1 /\ op.b = SEEK_CUR /\ op.pre.offset = 0
  /\ chdstream_tell(stream) = 0
  /\ stream.track_end > 0

\* C5: a seek with a recognized origin and a non-negative candidate succeeds
\* and sets the cursor to min(candidate, track_end), changing nothing else
C5_SeekClamps ==
  (IsSeek /\ KnownWhence(op.b) /\ Candidate(op.pre, op.a, op.b) >= 0) =>
     /\ ret = 0
     /\ stream = [op.pre EXCEPT !.offset =
                    Min(Candidate(op.pre, op.a, op.b), op.pre.track_end)]

\* C5 witness: seek(0, SEEK_END) from elsewhere, tell() = track_end
C5_Witness ==
  /\ IsSeek /\ ret = 0
  /\ op.a = 0 /\ op.b = SEEK_END
  /\ op.pre.offset # op.pre.track_end
  /\ chdstream_tell(stream) = stream.track_end

\* C6: chd_read is called only for a hunk that differs from the cached hunk
\* number: the first hunk a read asks for is not the one cached before the
\* read, no hunk is asked twice in a row, a read whose data lies in the
\* cached hunk asks for nothing, a read whose data lies in one other hunk
\* asks once, after a read that loaded hunks the cached number is the last
\* hunk asked, and no other operation asks for a hunk or changes the cache
C6_CacheReuse ==
  /\ IsRead =>
       /\ Len(calls) > 0 => calls[1] # op.pre.hunknum
       /\ \A j \in 1..(Len(calls) - 1) : calls[j] # calls[j + 1]
       /\ (pc = "opened" /\ DataHunks(op.pre, ret) = {op.pre.hunknum}) =>
             calls = << >>
       /\ (pc = "opened" /\ Cardinality(DataHunks(op.pre, ret)) = 1
             /\ DataHunks(op.pre, ret) # {op.pre.hunknum}) => Len(calls) = 1
       /\ (pc = "opened" /\ Len(calls) > 0) =>
             stream.hunknum = calls[Len(calls)]
       /\ (pc = "opened" /\ Len(calls) = 0) =>
             stream.hunknum = op.pre.hunknum
  /\ op.name \in {"seek", "rewind", "tell"} =>
       calls = << >> /\ stream.hunknum = op.pre.hunknum
                     /\ stream.hunkmem = op.pre.hunkmem

\* C6 witness: a read that delivered data of the hunk loaded by an earlier
\* read, with no call to the engine
C6_Witness ==
  /\ IsRead /\ pc = "opened"
  /\ ret > 0 /\ out[Len(out)] # 0
  /\ op.pre.hunknum >= 0
  /\ calls = << >>

\* the byte the track holds at logical offset o: zero in the pregap, else
\* the engine's byte for that frame, byte pairs swapped on an audio track
TrackByte(s, fd, o) ==
  IF o < s.track_start THEN 0
  ELSE LET f == s.track_frame + ((o - s.track_start) \div s.frame_size)
           p == (f % s.frames_per_hunk) * fd.unitbytes + (o % s.frame_size)
                  + s.frame_offset
       IN EngineByte(f \div s.frames_per_hunk,
                     IF s.swab THEN Swap16Index(p, fd.hunkbytes) ELSE p)

\* C7: the single-byte read returns the byte at the cursor and advances the
\* cursor by 1 when current_offset < track_end, and reports end-of-stream
\* and leaves the cursor unchanged when current_offset = track_end
C7_GetcReadsOneByte ==
  (op.name = "getc" /\ pc = "opened") =>
     IF op.pre.offset < op.pre.track_end
     THEN /\ ret = TrackByte(op.pre, chd, op.pre.offset)
          /\ stream.offset = op.pre.offset + 1
     ELSE /\ ret = EOF
          /\ stream.offset = op.pre.offset

(***************************************************************************)
(* Properties of track resolution (checked under SpecOpen).                *)
(***************************************************************************)
\* chd_open succeeded and chdstream_find_track has returned
SearchReturned == locals.chd /\ pc \notin {"chd_open", "find_track"}

\* the loop of chdstream_find_special_track ran an iteration with i above
\* every track number that did not return: no later iteration differs
Hung == pc = "find_track" /\ locals.spin

IsData(r) == r.type # "AUDIO"

\* the records carry the track numbers 1..n in order, as on a disc image
Numbered(recs) == \A j \in 1..Len(recs) : recs[j].track = j

\* round_up(frames, 4) - frames
Pad(frames) == (4 - (frames % 4)) % 4

\* the sum of frames + pad over the first n records
RECURSIVE FramesBefore(_, _)
FramesBefore(recs, n) ==
  IF n = 0 THEN 0
  ELSE FramesBefore(recs, n - 1) + recs[n].frames + Pad(recs[n].frames)

\* C8: for a container with n >= 2 records (numbered 1..n), selector LAST
\* resolves to the final record: its track number, type and frame count,
\* with frame_offset the sum of frames + pad over all preceding records
C8_LastIsFinalRecord ==
  (selector = CHDSTREAM_TRACK_LAST /\ Len(chd.records) >= 2
     /\ Numbered(chd.records) /\ SearchReturned) =>
     /\ locals.ok
     /\ LET n == Len(chd.records)
            r == chd.records[n]
        IN /\ locals.meta.track = r.track
           /\ locals.meta.type = r.type
           /\ locals.meta.frames = r.frames
           /\ locals.meta.frame_offset = FramesBefore(chd.records, n - 1)

\* C9: for a container (numbered 1..n) with at least one non-AUDIO record,
\* selector PRIMARY resolves: the search returns, and it returns a non-AUDIO
\* record with the largest frame count among the non-AUDIO records, with
\* the frame_offset the explicit-number path returns for its track number
C9_PrimaryIsLargestData ==
  (selector = CHDSTREAM_TRACK_PRIMARY /\ locals.chd /\ Numbered(chd.records)
     /\ \E j \in 1..Len(chd.records) : IsData(chd.records[j])) =>
     /\ ~Hung
     /\ SearchReturned =>
          /\ locals.ok
          /\ \E j \in 1..Len(chd.records) :
               LET r == chd.records[j]
               IN /\ IsData(r)
                  /\ \A k \in 1..Len(chd.records) :
                       IsData(chd.records[k]) => chd.records[k].frames <= r.frames
                  /\ locals.meta.track = r.track
                  /\ locals.meta.type = r.type
                  /\ locals.meta.frames = r.frames
                  /\ locals.meta.frame_offset =
                       chdstream_find_track_number(chd, r.track).meta.frame_offset

\* C10: if no record has a type other than "AUDIO", resolving FIRST_DATA and
\* resolving PRIMARY both report not_found, and open returns no stream
C10_NoDataNotFound ==
  (selector \in {CHDSTREAM_TRACK_FIRST_DATA, CHDSTREAM_TRACK_PRIMARY}
     /\ locals.chd
     /\ \A j \in 1..Len(chd.records) : ~IsData(chd.records[j])) =>
     /\ ~Hung
     /\ SearchReturned => ~locals.ok
     /\ pc # "opened"

(***************************************************************************)
(* Properties of the stream chdstream_open returns (checked under          *)
(* SpecGeom).                                                              *)
(***************************************************************************)
\* C11: every stream returned by open has track_start <= track_end and
\* track_end - track_start = frames * frame_size, with frame_size 2352 for
\* MODE1_RAW, MODE2_RAW and AUDIO and the unit size otherwise, and
\* track_start = pregap * frame_size when the pregap type equals the track
\* type and 0 otherwise
C11_TrackRange ==
  pc = "opened" =>
     LET m == locals.meta
         fs == IF m.type \in {"MODE1_RAW", "MODE2_RAW", "AUDIO"}
               THEN 2352 ELSE chd.unitbytes
     IN /\ stream.frame_size = fs
        /\ stream.track_start <= stream.track_end
        /\ stream.track_end - stream.track_start = m.frames * fs
        /\ stream.track_start = IF m.pgtype = m.type THEN m.pregap * fs ELSE 0

\* C11 witness: an AUDIO track of 2 frames with a pregap of 2 frames of
\* type AUDIO is opened with start 2 * 2352 and end 4 * 2352
C11_Witness ==
  /\ pc = "opened"
  /\ locals.meta.type = "AUDIO" /\ locals.meta.pgtype = "AUDIO"
  /\ locals.meta.frames = 2 /\ locals.meta.pregap = 2
  /\ stream.track_start = 2 * 2352
  /\ stream.track_end = 4 * 2352

AllReleased == heap = [sessions |-> 0, streams |-> 0, hunkmems |-> 0]

\* C12: on every path through open and close the engine session is closed
\* exactly once per successful engine open and the hunk buffer and the
\* stream record are freed exactly once per allocation: nothing is released
\* twice, a returned stream holds one of each, a failed open returns no
\* stream and leaves nothing open or allocated, and close (on a stream or on
\* null) leaves nothing behind
C12_ResourcesBalanced ==
  /\ heap.sessions \in 0..1 /\ heap.streams \in 0..1 /\ heap.hunkmems \in 0..1
  /\ heap.sessions = (IF locals.chd /\ pc \notin {"null", "closed"} THEN 1 ELSE 0)
  /\ pc = "opened" => heap = [sessions |-> 1, streams |-> 1, hunkmems |-> 1]
  /\ pc = "null" => AllReleased /\ stream = NoStream
  /\ pc = "closed" => AllReleased

\* C12 witness: open failed at the allocation of the hunk buffer, after the
\* session was opened and the stream record allocated, and returned null
\* with everything released
C12_Witness ==
  /\ pc = "null"
  /\ locals.chd /\ locals.stream
  /\ AllReleased

(***************************************************************************)
(* Properties of the bytes delivered (checked under Spec).                 *)
(***************************************************************************)
\* the physical frame of logical offset o >= track_start, and the position
\* in the hunk buffer its byte is copied from
FrameOfOffset(s, o) == s.track_frame + ((o - s.track_start) \div s.frame_size)

BufferIndex(s, fd, o) ==
  (FrameOfOffset(s, o) % s.frames_per_hunk) * fd.unitbytes
    + (o % s.frame_size) + s.frame_offset

\* the other byte of the 16-bit word of byte p
OtherHalf(p) == IF p % 2 = 0 THEN p + 1 ELSE p - 1

\* C13: on an AUDIO track every byte read delivers for a data position is
\* the engine's byte of the other half of the same 16-bit word, whether the
\* hunk was loaded by this read or was cached; the hunk buffer has had
\* exactly one swap pass since its load on an AUDIO track and none on any
\* other track, where the bytes are delivered as the engine holds them
C13_AudioSwappedOnce ==
  /\ IsRead =>
       \A k \in 1..Len(out) :
          LET o == op.pre.offset + k - 1
              h == HunkOfOffset(op.pre, o)
              p == BufferIndex(op.pre, chd, o)
          IN o >= op.pre.track_start =>
               out[k] = IF op.pre.swab THEN EngineByte(h, OtherHalf(p))
                                       ELSE EngineByte(h, p)
  /\ stream.hunkmem.hunk # -1 =>
       stream.hunkmem.swaps = (IF stream.swab THEN 1 ELSE 0)
  /\ stream.swab = (locals.meta.type = "AUDIO")

\* C13 witness: a read on an AUDIO track delivered a whole 16-bit word from
\* the hunk an earlier read had loaded, without a call to the engine, and
\* the two bytes are the engine's bytes in swapped order
C13_Witness ==
  /\ IsRead /\ pc = "opened" /\ op.pre.swab
  /\ op.pre.hunknum >= 0 /\ calls = << >>
  /\ op.pre.offset >= op.pre.track_start
  /\ op.pre.offset % 2 = 0
  /\ Len(out) >= 2
  /\ LET p == BufferIndex(op.pre, chd, op.pre.offset)
         h == op.pre.hunknum
     IN /\ out[1] = EngineByte(h, p + 1)
        /\ out[2] = EngineByte(h, p)
        /\ out[1] # out[2]

\* the last hunk the operation asked of the engine failed to load
LoadFailed == Len(calls) > 0 /\ calls[Len(calls)] \in chd.bad

\* C14: when the engine fails to load a hunk during read, the call returns
\* to its caller with a failure result (the process is not terminated), the
\* load is not retried, and the bytes of the earlier chunks stay delivered
\* with the cursor advanced past them
C14_ReadFailureReturned ==
  (IsRead /\ LoadFailed) =>
     /\ pc = "opened"
     /\ ret = -1
     /\ \A j \in 1..(Len(calls) - 1) : calls[j] \notin chd.bad
     /\ stream.offset = op.pre.offset + Len(out)

(***************************************************************************)
(* Properties of resolution by track number (checked under SpecNumber).    *)
(***************************************************************************)
\* the indices of the records with track number t
Matches(recs, t) == { j \in 1..Len(recs) : recs[j].track = t }

\* the least element of a non-empty set of numbers
Least(S) == CHOOSE j \in S : \A k \in S : j <= k

\* C15: an explicit positive track number t resolves to the first record
\* whose track number is t, with frame_offset the sum of frames + pad over
\* the records before it, where pad = round_up(frames, 4) - frames,
\* 0 <= pad < 4 and frames + pad is a multiple of 4; not_found when no
\* record has track number t; the pad is checked for the frame count of
\* every record and for that count plus 4
C15_ExplicitNumber ==
  /\ (selector > 0 /\ SearchReturned) =>
       IF Matches(chd.records, selector) = {}
       THEN ~locals.ok /\ locals.exhausted /\ pc # "opened"
       ELSE LET j == Least(Matches(chd.records, selector))
                r == chd.records[j]
            IN /\ locals.ok
               /\ locals.meta.track = selector
               /\ locals.meta.type = r.type
               /\ locals.meta.frames = r.frames
               /\ locals.meta.frame_offset = FramesBefore(chd.records, j - 1)
  /\ \A j \in 1..Len(chd.records), q \in 0..1 :
       LET f == chd.records[j].frames + 4 * q
           pad == padding_frames(f)
       IN /\ pad = Pad(f)
          /\ 0 <= pad /\ pad < 4
          /\ (f + pad) % 4 = 0

\* C15 witness: track 2 behind a one-frame track 1 is resolved with
\* frame_offset 4 (one frame and three frames of padding)
C15_Witness ==
  /\ selector = 2 /\ SearchReturned /\ locals.ok
  /\ Len(chd.records) = 2
  /\ chd.records[1].track = 1 /\ chd.records[1].frames = 1
  /\ locals.meta.track = 2
  /\ locals.meta.frame_offset = 4

(***************************************************************************)
(* Further properties of the stream operations (checked under Spec).       *)
(***************************************************************************)
\* C16: on a non-swapped track, the byte read delivers for a logical offset
\* o with track_start <= o < track_end is the engine's byte at position
\* (f mod frames_per_hunk) * unitbytes + (o mod frame_size) + frame_offset
\* of hunk f div frames_per_hunk, with
\* f = track_frame + (o - track_start) div frame_size, for reads of any
\* length and alignment
C16_ByteMapping ==
  (IsRead /\ ~op.pre.swab) =>
     \A k \in 1..Len(out) :
        LET o == op.pre.offset + k - 1
            f == op.pre.track_frame
                   + ((o - op.pre.track_start) \div op.pre.frame_size)
        IN (op.pre.track_start <= o /\ o < op.pre.track_end) =>
              out[k] = EngineByte(f \div op.pre.frames_per_hunk,
                                  (f % op.pre.frames_per_hunk) * chd.unitbytes
                                    + (o % op.pre.frame_size)
                                    + op.pre.frame_offset)

\* C16 witness: a read on a cooked track that started inside a frame and
\* ran over more than a frame, across two hunks, both loaded by this read
C16_Witness ==
  /\ IsRead /\ pc = "opened" /\ ~op.pre.swab
  /\ op.pre.offset >= op.pre.track_start
  /\ op.pre.offset % op.pre.frame_size # 0
  /\ Len(out) > op.pre.frame_size
  /\ Len(calls) = 2
  /\ out[1] # out[Len(out)]

\* C17: the byte slurp with buffer length len >= 1 consumes
\* min(len - 1, track_end - current_offset) bytes, advancing the cursor by
\* that many, stores them in order at the start of the buffer, writes a null
\* terminator right after them, and writes nowhere outside the first len
\* bytes of the buffer
C17_GetsConsumes ==
  (op.name = "gets" /\ op.a >= 1 /\ pc = "opened") =>
     LET n == Min(op.a - 1, op.pre.track_end - op.pre.offset)
     IN /\ stream.offset = op.pre.offset + n
        /\ Len(out) = op.a
        /\ \A k \in 1..n : out[k] = TrackByte(op.pre, chd, op.pre.offset + k - 1)
        /\ out[n + 1] = 0

(***************************************************************************)
(* Properties of the special selectors (checked under SpecOpen, and        *)
(* termination under SpecOpenFair).                                        *)
(***************************************************************************)
\* C18: for a container with zero records or exactly one record, resolving
\* LAST reports not_found and open returns no stream
C18_LastNeedsTwo ==
  (selector = CHDSTREAM_TRACK_LAST /\ Len(chd.records) <= 1 /\ SearchReturned) =>
     /\ ~locals.ok
     /\ pc # "opened"

\* C19: track resolution terminates for every selector on every container:
\* once chdstream_find_track is entered it eventually returns
C19_ResolveTerminates ==
  (pc = "find_track") ~> (pc # "find_track")

(***************************************************************************)
(* Memory safety of the copy out of the hunk buffer (checked under         *)
(* SpecRaw).                                                               *)
(***************************************************************************)
\* C20: every copy read makes out of the cache stays inside the hunk
\* buffer, (frame mod frames_per_hunk) * unitbytes + (offset mod frame_size)
\* + frame_offset + amount <= hunkbytes for each chunk, also for a raw or
\* AUDIO track in a container whose unit is smaller than 2352 bytes: every
\* data byte delivered was copied from a position below hunkbytes, and no
\* read faults
C20_CopyInsideHunk ==
  IsRead =>
     /\ \A k \in 1..Len(out) :
          LET o == op.pre.offset + k - 1
          IN o >= op.pre.track_start =>
                BufferIndex(op.pre, chd, o) < chd.hunkbytes
     /\ pc = "aborted" => LoadFailed

====
